---- MODULE Spec2Model ----
(***************************************************************************)
(* Solar panel calculator: the request handler calculate_solar_angles      *)
(* (backend/solar/views.py) and the SolarCalculator engine                 *)
(* (backend/solar/solar_calculator.py).                                    *)
(*                                                                         *)
(* Number representation.  Angles are integers counting half degrees       *)
(* (Deg(23) + 1 is 23.5 degrees).  Radiation is an integer counting        *)
(* 1/RadUnit kWh/m2/day with RadUnit = 18000, the scale on which the       *)
(* fallback estimate is exact.  Irradiance is in W/m2, cosines in          *)
(* thousandths.  Energy output is in thousandths of a kWh.  Rounded        *)
(* presentation fields are in hundredths.  A Python float is a record      *)
(* [cls, v]: cls "fin" carries the value v, "nan", "inf", "ninf" are the   *)
(* non-finite floats and "none" is None.                                   *)
(***************************************************************************)
EXTENDS Integers, Sequences, FiniteSets, TLC

VARIABLES
    pc,               \* position of the request / call in flight
    mode,             \* "api": through the handler, "direct": a call of the engine
    today,            \* date.today(), as a day number
    request,          \* the payload of the request in flight
    latitude,         \* local: float(data['latitude'])  / argument of the engine
    longitude,        \* local: float(data['longitude']) / argument of the engine
    offset_angle,     \* local: None or float(data['offset_angle'])
    self,             \* the SolarCalculator instance the call runs on
    core_called,      \* whether calculate_optimal_angles has been entered
    calcs,            \* instance id -> fields of that SolarCalculator
    optimal_tilt,     \* local of calculate_optimal_angles
    optimal_azimuth,  \* local of calculate_optimal_angles
    annual_radiation, \* local of calculate_optimal_angles
    estimated_output, \* local of calculate_optimal_angles
    primary_failed,   \* whether the pvlib path raised in this call
    sample_dates,     \* local dates of _calculate_annual_radiation: << >> or <<the index>>
    invoked,          \* estimators invoked by this call, in order
    result,           \* << >> or <<the result record>>
    exc,              \* the exception in flight, NoExc when none
    store_attempts,   \* calls of SolarCalculation.objects.create in this request
    store_failed,     \* whether that call raised
    create_kwargs,    \* << >> or <<the row that call was given>>
    create_calls,     \* calls of SolarCalculation.objects.create so far, all requests
    responses_200,    \* 200 responses returned so far, all requests
    stored,           \* rows created by this request
    log,              \* levels logged by this request / call
    response,         \* << >> or <<the Response>>
    memo              \* << >> or <<an earlier completed call: key and outputs>>

vars == <<pc, mode, today, request, latitude, longitude, offset_angle, self,
          core_called, calcs,
          optimal_tilt, optimal_azimuth, annual_radiation, estimated_output,
          primary_failed, sample_dates, invoked, result, exc, store_attempts, store_failed,
                   create_kwargs, create_calls, responses_200,
          stored, log, response, memo>>

----------------------------------------------------------------------------
(* Bounds of the model *)

\* the number of calendar days date.today() ranges over
MaxDays == 2

\* the number of calls of SolarCalculation.objects.create a run goes up to
MaxCreates == 2

----------------------------------------------------------------------------
(* Arithmetic helpers *)

Deg(x) == 2 * x

RadUnit == Deg(90) * 100

Abs(x) == IF x < 0 THEN -x ELSE x

Min(a, b) == IF a < b THEN a ELSE b

Max(a, b) == IF a > b THEN a ELSE b

RECURSIVE GCD(_, _)
GCD(a, b) == IF b = 0 THEN Abs(a) ELSE GCD(b, a % Abs(b))

\* floor(a * b / c) for c > 0, without forming a * b
MulDiv(a, b, c) ==
    LET g  == GCD(b, c)
        bb == b \div g
        cc == c \div g
        q  == a \div cc
        r  == a % cc
    IN  q * bb + ((r * bb) \div cc)

\* n / d rounded to the nearest integer, ties to even, as Python's round()
RoundHalfEven(n, d) ==
    LET q == n \div d
        r == n % d
    IN  IF 2 * r < d THEN q
        ELSE IF 2 * r > d THEN q + 1
        ELSE IF q % 2 = 0 THEN q ELSE q + 1

----------------------------------------------------------------------------
(* Python floats and None *)

Fin(x) == [cls |-> "fin", v |-> x]
NaN == [cls |-> "nan", v |-> 0]
PosInf == [cls |-> "inf", v |-> 0]
NegInf == [cls |-> "ninf", v |-> 0]
None == [cls |-> "none", v |-> 0]

\* Python's a <= b on floats: false whenever either side is NaN
PyLe(a, b) ==
    IF a.cls = "nan" \/ b.cls = "nan" THEN FALSE
    ELSE IF a.cls = "ninf" \/ b.cls = "inf" THEN TRUE
    ELSE IF a.cls = "inf" \/ b.cls = "ninf" THEN FALSE
    ELSE a.v <= b.v

\* Python's chained comparison lo <= x <= hi
PyBetween(lo, x, hi) == PyLe(Fin(lo), x) /\ PyLe(x, Fin(hi))

----------------------------------------------------------------------------
(* Exceptions, responses *)

NoExc == [type |-> "none", msg |-> ""]
Raise(t, m) == [type |-> t, msg |-> m]

\* the class hierarchy the except clauses test against: ValueError and TypeError
\* are caught by name, every exception here derives from Exception
IsInstance(e, classes) == e.type \in classes

Response(st, err, data) == [status |-> st, error |-> err, data |-> data]

----------------------------------------------------------------------------
(* SolarCalculator: the engine (solar_calculator.py) *)

\* __init__: system_efficiency 0.75 in hundredths, panel_area 1.0 in tenths
SolarCalculator == [system_efficiency |-> 75, panel_area |-> 10]

\* Python's a < b on floats
PyLt(a, b) == a.cls # "nan" /\ b.cls # "nan" /\ ~PyLe(b, a)

\* Faulty variant of validate_inputs: the offset range check is left out
validate_inputs_no_offset(lat, lon, off) ==
    IF ~PyBetween(-Deg(90), lat, Deg(90))
    THEN "Latitude must be between -90 and 90 degrees"
    ELSE IF ~PyBetween(-Deg(180), lon, Deg(180))
    THEN "Longitude must be between -180 and 180 degrees"
    ELSE ""

\* Faulty variant of validate_inputs: the range checks written as
\* x < lo or x > hi, which NaN passes
validate_inputs_nan(lat, lon, off) ==
    IF PyLt(lat, Fin(-Deg(90))) \/ PyLt(Fin(Deg(90)), lat)
    THEN "Latitude must be between -90 and 90 degrees"
    ELSE IF PyLt(lon, Fin(-Deg(180))) \/ PyLt(Fin(Deg(180)), lon)
    THEN "Longitude must be between -180 and 180 degrees"
    ELSE IF off.cls # "none" /\ (PyLt(off, Fin(-Deg(90))) \/ PyLt(Fin(Deg(90)), off))
    THEN "Offset angle must be between -90 and 90 degrees"
    ELSE ""

\* calculate_optimal_angles, "Validate inputs": the message of the ValueError
\* raised, "" when the inputs pass
validate_inputs(lat, lon, off) ==
    IF ~PyBetween(-Deg(90), lat, Deg(90))
    THEN "Latitude must be between -90 and 90 degrees"
    ELSE IF ~PyBetween(-Deg(180), lon, Deg(180))
    THEN "Longitude must be between -180 and 180 degrees"
    ELSE IF off.cls # "none" /\ ~PyBetween(-Deg(90), off, Deg(90))
    THEN "Offset angle must be between -90 and 90 degrees"
    ELSE ""

\* Faulty variant of calculate_optimal_tilt: the seasonal adjustment is +5 in
\* both hemispheres
calculate_optimal_tilt_plus5(lat, off) ==
    LET base_tilt == Abs(lat.v)
        seasonal_adjustment == IF Abs(lat.v) > Deg(25) THEN Deg(5) ELSE 0
        unadjusted == base_tilt + seasonal_adjustment
        with_offset == IF off.cls # "none" THEN unadjusted + off.v ELSE unadjusted
    IN  Max(0, Min(Deg(90), with_offset))

calculate_optimal_tilt(lat, off) ==
    LET base_tilt == Abs(lat.v)
        seasonal_adjustment ==
            IF Abs(lat.v) > Deg(25)
            THEN (IF lat.v > 0 THEN Deg(5) ELSE -Deg(5))
            ELSE 0
        unadjusted == base_tilt + seasonal_adjustment
        with_offset == IF off.cls # "none" THEN unadjusted + off.v ELSE unadjusted
    IN  Max(0, Min(Deg(90), with_offset))

\* Faulty variant of calculate_optimal_azimuth: the equator counts as southern
calculate_optimal_azimuth_strict(lat) == IF lat.v > 0 THEN Deg(180) ELSE Deg(0)

calculate_optimal_azimuth(lat) == IF lat.v >= 0 THEN Deg(180) ELSE Deg(0)

\* Faulty variant of fallback_radiation_calculation: the band edges belong to
\* the lower-latitude band
fallback_radiation_calculation_le(lat, tilt) ==
    LET abs_lat == Abs(lat.v)
        base_radiation ==
            IF abs_lat <= Deg(23) + 1 THEN 55
            ELSE IF abs_lat <= Deg(45) THEN 45
            ELSE IF abs_lat <= Deg(60) THEN 35
            ELSE 25
        tilt_factor == 10 * Deg(90) + (Deg(90) - Abs(tilt - abs_lat))
    IN  base_radiation * tilt_factor

\* base radiation in tenths, tilt factor in 1/(10 * Deg(90)): the product is in
\* 1/RadUnit
fallback_radiation_calculation(lat, tilt) ==
    LET abs_lat == Abs(lat.v)
        base_radiation ==
            IF abs_lat < Deg(23) + 1 THEN 55
            ELSE IF abs_lat < Deg(45) THEN 45
            ELSE IF abs_lat < Deg(60) THEN 35
            ELSE 25
        tilt_factor == 10 * Deg(90) + (Deg(90) - Abs(tilt - abs_lat))
    IN  base_radiation * tilt_factor

\* np.cos / np.sin of an angle in half degrees, in thousandths (Bhaskara's
\* rational approximation, exact at 0, 60, 90, 120 and 180 degrees)
CosTable ==
    [h \in 0..Deg(180) |->
        LET k == IF h <= Deg(90) THEN h ELSE Deg(180) - h
            c == (4000 * (Deg(90) * Deg(90) - k * k)) \div (4 * Deg(90) * Deg(90) + k * k)
        IN  IF h <= Deg(90) THEN c ELSE -c]

Cos(h) == CosTable[h]

Sin(h) == CosTable[Abs(Deg(90) - h)]

Clip(x, lo, hi) == Max(lo, Min(hi, x))

\* elementwise over the arrays: ghi in W/m2, zenith and tilt in half degrees;
\* the result is in thousandths of W/m2
calculate_tilted_radiation(ghi, zenith, tilt) ==
    [i \in 1..Len(ghi) |->
        LET cos_incidence ==
                (Cos(zenith[i]) * Cos(tilt) + Sin(zenith[i]) * Sin(tilt)) \div 1000
        IN  ghi[i] * Clip(cos_incidence, 0, 1000)]

\* a[lo] + ... + a[hi], by halves
RECURSIVE SumRange(_, _, _)
SumRange(a, lo, hi) ==
    IF lo > hi THEN 0
    ELSE IF lo = hi THEN a[lo]
    ELSE LET mid == (lo + hi) \div 2
         IN  SumRange(a, lo, mid) + SumRange(a, mid + 1, hi)

\* np.mean
Mean(a) == SumRange(a, 1, Len(a)) \div Len(a)
\* Faulty variant of SampleYear: the year of the day of the call
CurrentYear == 2023 + today

\* the year of start_date and end_date
SampleYear == 2024

IsLeap(y) == (y % 4 = 0 /\ y % 100 # 0) \/ y % 400 = 0

DaysInMonth(y, m) ==
    IF m = 2 THEN (IF IsLeap(y) THEN 29 ELSE 28)
    ELSE IF m \in {4, 6, 9, 11} THEN 30 ELSE 31

RECURSIVE DaysFrom(_, _)
DaysFrom(y, m) ==
    IF m > 12 THEN << >>
    ELSE [d \in 1..DaysInMonth(y, m) |-> [year |-> y, month |-> m, day |-> d]]
         \o DaysFrom(y, m + 1)

\* pd.date_range(datetime(y, 1, 1), datetime(y, 12, 31), freq='D')
date_range(y) == DaysFrom(y, 1)

\* a DatetimeIndex as kept in the state: its first and last timestamps and its
\* length
DatetimeIndex(d) == [first |-> d[1], last |-> d[Len(d)], periods |-> Len(d)]

\* pvlib's ephemeris, which the engine only calls: a deterministic stand-in with
\* the library's contract (a zenith in [0, 180] degrees per timestamp, sampled
\* at 00:00 UTC).  The declination swings between -23 and +23 degrees over
\* the year, the hour angle follows from the longitude.
Declination(n, len) ==
    LET d == Abs(n - 172)
        dist == IF 2 * d <= len THEN d ELSE len - d
    IN  23 - ((92 * dist) \div len)

get_solarposition(lat, lon, dates) ==
    [i \in 1..Len(dates) |->
        LET decl  == Declination(i, Len(dates))
            lat_d == lat.v \div 2
            noon  == Abs(lat_d - decl)
            night == 180 - Abs(lat_d + decl)
            hour  == 180 - Abs(lon.v \div 2)
        IN  Deg(noon + ((hour * (night - noon)) \div 180))]

\* clear-sky global horizontal irradiance in W/m2: 1000 cos(zenith), and zero
\* while the sun is below the horizon
get_clearsky(lat, lon, dates) ==
    LET zenith == get_solarposition(lat, lon, dates)
    IN  [i \in 1..Len(dates) |-> Max(0, Cos(zenith[i]))]

\* Series.to_numpy(): the values as a plain array
to_numpy(series) == series \o << >>

\* the outcomes of the pvlib calls: "ok" or the class of the exception raised
PvlibOutcomes == {"ok", "ValueError", "OSError"}

\* the body of the try block of _calculate_annual_radiation when no call
\* raises: mean daily irradiance on the tilted surface * 365 / 1000, in 1/RadUnit
primary_radiation(lat, lon, tilt) ==
    LET dates == date_range(SampleYear)
        solar_position == get_solarposition(lat, lon, dates)
        clear_sky == get_clearsky(lat, lon, dates)
        ghi == to_numpy(clear_sky)
        zenith == to_numpy(solar_position)
        radiation_on_tilt == calculate_tilted_radiation(ghi, zenith, tilt)
    IN  MulDiv(Mean(radiation_on_tilt) * 365, RadUnit, 1000 * 1000)

\* Faulty variant of calculate_annual_radiation: no except clause, the
\* exception of the primary path leaves the method
calculate_annual_radiation_unguarded(lat, lon, tilt, pvlib) ==
    IF pvlib = "ok"
    THEN [value |-> primary_radiation(lat, lon, tilt), log |-> << >>, raised |-> NoExc]
    ELSE [value |-> 0, log |-> << >>, raised |-> Raise(pvlib, "pvlib failure")]

\* _calculate_annual_radiation: the value returned (in 1/RadUnit), what was
\* logged, and the exception leaving the method (none: except Exception
\* catches whatever the primary path raises)
calculate_annual_radiation(lat, lon, tilt, pvlib) ==
    IF pvlib = "ok"
    THEN [value |-> primary_radiation(lat, lon, tilt), log |-> << >>, raised |-> NoExc]
    ELSE [value |-> fallback_radiation_calculation(lat, tilt),
          log |-> <<"warning">>,
          raised |-> NoExc]

\* _calculate_annual_output: radiation in 1/RadUnit in, thousandths of a kWh out
calculate_annual_output(fields, radiation) ==
    LET annual_radiation_total == MulDiv(radiation, 365 * 1000, RadUnit)
    IN  MulDiv(MulDiv(annual_radiation_total, fields.panel_area, 10),
               fields.system_efficiency, 100)

\* the dictionary calculate_optimal_angles returns; round(x, 2) gives hundredths
result_record(fields, tilt, azimuth, radiation, output, date) ==
    [optimal_pitch |-> RoundHalfEven(tilt * 100, Deg(1)),
     optimal_azimuth |-> RoundHalfEven(azimuth * 100, Deg(1)),
     annual_solar_radiation |-> RoundHalfEven(radiation, RadUnit \div 100),
     efficiency_factor |-> fields.system_efficiency,
     estimated_annual_output |-> RoundHalfEven(output, 10),
     calculation_date |-> date]
----------------------------------------------------------------------------
(* The request handler calculate_solar_angles (views.py) *)

\* a field of request.data: absent, or a JSON value.  "num" is a number or a
\* numeric string (it coerces to f), "str" a string that is no number, "null"
\* JSON null, "bigint" an integer literal beyond the range of a float
Raw(t, f) == [t |-> t, f |-> f]

Absent == Raw("absent", None)

\* float(value): the float, or the exception float() raises
to_float(raw) ==
    IF raw.t = "num" THEN [f |-> raw.f, exc |-> NoExc]
    ELSE IF raw.t = "str"
    THEN [f |-> None, exc |-> Raise("ValueError", "could not convert string to float")]
    ELSE IF raw.t = "bigint"
    THEN [f |-> None, exc |-> Raise("OverflowError", "int too large to convert to float")]
    ELSE [f |-> None, exc |-> Raise("TypeError", "float() argument must be a string or a number")]

\* except (ValueError, TypeError) around the coercions
coercion_caught(e) == IsInstance(e, {"ValueError", "TypeError"})

\* the exception classes of the model; each derives from Exception
ExceptionClasses ==
    {"ValueError", "TypeError", "OverflowError", "ParseError", "OSError",
     "OperationalError"}

\* Faulty variant of store_caught: except DatabaseError only
store_caught_db_only(e) == IsInstance(e, {"OperationalError"})

\* Faulty variant of store_caught: no try / except around the create call
store_caught_none(e) == FALSE

\* except Exception around SolarCalculation.objects.create
store_caught(e) == IsInstance(e, ExceptionClasses)

\* the outcomes of SolarCalculation.objects.create: "ok" or the exception class
StoreOutcomes == {"ok", "ValueError", "OperationalError"}

\* Faulty variant of handle_exception: the 500 body carries str(e)
handle_exception_leaky(e) ==
    IF IsInstance(e, {"ValueError"})
    THEN Response(400, e.msg, << >>)
    ELSE Response(500, e.msg, << >>)

\* the two outer except clauses: ValueError first, then Exception
handle_exception(e) ==
    IF IsInstance(e, {"ValueError"})
    THEN Response(400, e.msg, << >>)
    ELSE Response(500, "Internal server error", << >>)

\* the row SolarCalculation.objects.create is given
calculation_row(lat, lon, off, res) ==
    [latitude |-> lat, longitude |-> lon, offset_angle |-> off,
     optimal_pitch |-> res.optimal_pitch,
     optimal_azimuth |-> res.optimal_azimuth,
     annual_solar_radiation |-> res.annual_solar_radiation,
     efficiency_factor |-> res.efficiency_factor,
     estimated_annual_output |-> res.estimated_annual_output]

----------------------------------------------------------------------------
(* Inputs *)

\* latitudes in half degrees: both poles, the band edges 23.5, 45, 60, the
\* seasonal threshold 25 and its neighbours, and values beyond the range
ValidLatitudes ==
    {-Deg(90), -Deg(60), -Deg(45), -Deg(33), -Deg(25) - 1, -Deg(25), -1, 0,
     Deg(23), Deg(23) + 1, Deg(25), Deg(25) + 1, Deg(30), Deg(45), Deg(60),
     Deg(85) + 1, Deg(90)}

Latitudes ==
    {Fin(x) : x \in ValidLatitudes \cup {-Deg(90) - 1, Deg(90) + 1, Deg(100)}}
    \cup {NaN, PosInf, NegInf}

ValidLongitudes == {-Deg(180), -Deg(74), Deg(151), Deg(180)}

Longitudes ==
    {Fin(x) : x \in ValidLongitudes \cup {-Deg(180) - 1, Deg(180) + 1, Deg(200)}}
    \cup {NaN}

ValidOffsets == {-Deg(90), -Deg(10), Deg(15), Deg(90)}

Offsets ==
    {Fin(x) : x \in ValidOffsets \cup {-Deg(90) - 1, Deg(90) + 1, Deg(200)}}
    \cup {NaN}

BadValues == {Raw("str", None), Raw("null", None), Raw("bigint", None)}

NumValues(floats) == {Raw("num", f) : f \in floats}

Payloads ==
    [body : {"ok"},
     latitude : NumValues(Latitudes) \cup BadValues \cup {Absent},
     longitude : NumValues(Longitudes) \cup BadValues \cup {Absent},
     offset_angle : NumValues(Offsets) \cup BadValues \cup {Absent}]
    \cup {[body |-> "malformed", latitude |-> Absent, longitude |-> Absent,
           offset_angle |-> Absent]}

NoRequest == [body |-> "none", latitude |-> Absent, longitude |-> Absent,
              offset_angle |-> Absent]

\* instance 0 is the handler's local calculator, 1 and 2 are long-lived ones
Instances == {0, 1, 2}

----------------------------------------------------------------------------
(* State machine *)

Init ==
    /\ pc = "idle"
    /\ mode = "api"
    /\ today = 1
    /\ request = NoRequest
    /\ latitude = None
    /\ longitude = None
    /\ offset_angle = None
    /\ self = 0
    /\ core_called = FALSE
    /\ calcs = [i \in Instances |-> SolarCalculator]
    /\ optimal_tilt = 0
    /\ optimal_azimuth = 0
    /\ annual_radiation = 0
    /\ estimated_output = 0
    /\ primary_failed = FALSE
    /\ sample_dates = << >>
    /\ invoked = << >>
    /\ result = << >>
    /\ exc = NoExc
    /\ store_attempts = 0
    /\ store_failed = FALSE
    /\ create_kwargs = << >>
    /\ create_calls = 0
    /\ responses_200 = 0
    /\ stored = << >>
    /\ log = << >>
    /\ response = << >>
    /\ memo = << >>

\* what a new request or call starts from
Fresh ==
    /\ core_called' = FALSE
    /\ optimal_tilt' = 0
    /\ optimal_azimuth' = 0
    /\ annual_radiation' = 0
    /\ estimated_output' = 0
    /\ primary_failed' = FALSE
    /\ sample_dates' = << >>
    /\ invoked' = << >>
    /\ result' = << >>
    /\ exc' = NoExc
    /\ store_attempts' = 0
    /\ store_failed' = FALSE
    /\ create_kwargs' = << >>
    /\ stored' = << >>
    /\ log' = << >>
    /\ response' = << >>

\* date.today() moves on between requests
NewDay ==
    /\ pc = "idle"
    /\ today < MaxDays
    /\ today' = today + 1
    /\ UNCHANGED <<core_called, pc, mode, request, latitude, longitude, offset_angle, self, calcs,
                   optimal_tilt, optimal_azimuth, annual_radiation, estimated_output,
                   primary_failed, sample_dates, invoked, result, exc, store_attempts, store_failed,
                   create_kwargs, create_calls, responses_200,
                   stored, log, response, memo>>

\* a POST arrives
Receive(p) ==
    /\ pc = "idle"
    /\ create_calls < MaxCreates
    /\ pc' = "h_data"
    /\ mode' = "api"
    /\ request' = p
    /\ latitude' = None
    /\ longitude' = None
    /\ offset_angle' = None
    /\ self' = 0
    /\ Fresh
    /\ UNCHANGED <<today, calcs, memo, create_calls, responses_200>>

\* data = request.data: a malformed body raises ParseError inside the try
H_Data ==
    /\ pc = "h_data"
    /\ IF request.body = "malformed"
       THEN /\ exc' = Raise("ParseError", "JSON parse error")
            /\ pc' = "h_except"
       ELSE /\ exc' = exc
            /\ pc' = "h_required"
    /\ UNCHANGED <<core_called, mode, today, request, latitude, longitude, offset_angle, self, calcs,
                   optimal_tilt, optimal_azimuth, annual_radiation, estimated_output,
                   primary_failed, sample_dates, invoked, result, store_attempts, store_failed,
                   create_kwargs, create_calls, responses_200,
                   stored, log, response, memo>>

\* if 'latitude' not in data or 'longitude' not in data
H_Required ==
    /\ pc = "h_required"
    /\ IF request.latitude = Absent \/ request.longitude = Absent
       THEN /\ response' = <<Response(400, "latitude and longitude are required fields", << >>)>>
            /\ pc' = "responded"
       ELSE /\ response' = response
            /\ pc' = "h_coords"
    /\ UNCHANGED <<core_called, mode, today, request, latitude, longitude, offset_angle, self, calcs,
                   optimal_tilt, optimal_azimuth, annual_radiation, estimated_output,
                   primary_failed, sample_dates, invoked, result, exc, store_attempts, store_failed,
                   create_kwargs, create_calls, responses_200,
                   stored, log, memo>>

\* latitude = float(data['latitude']); longitude = float(data['longitude'])
H_Coords ==
    /\ pc = "h_coords"
    /\ LET a == to_float(request.latitude)
           b == to_float(request.longitude)
           e == IF a.exc # NoExc THEN a.exc ELSE b.exc
       IN  IF e = NoExc
           THEN /\ latitude' = a.f
                /\ longitude' = b.f
                /\ pc' = "h_offset"
                /\ UNCHANGED <<response, exc>>
           ELSE IF coercion_caught(e)
           THEN /\ response' = <<Response(400, "latitude and longitude must be valid numbers", << >>)>>
                /\ pc' = "responded"
                /\ UNCHANGED <<latitude, longitude, exc>>
           ELSE /\ exc' = e
                /\ pc' = "h_except"
                /\ UNCHANGED <<latitude, longitude, response>>
    /\ UNCHANGED <<core_called, mode, today, request, offset_angle, self, calcs,
                   optimal_tilt, optimal_azimuth, annual_radiation, estimated_output,
                   primary_failed, sample_dates, invoked, result, store_attempts, store_failed,
                   create_kwargs, create_calls, responses_200,
                   stored, log, memo>>

\* offset_angle = None; if 'offset_angle' in data: offset_angle = float(...)
H_Offset ==
    /\ pc = "h_offset"
    /\ LET c == to_float(request.offset_angle)
       IN  IF request.offset_angle = Absent
           THEN /\ offset_angle' = None
                /\ pc' = "h_call"
                /\ UNCHANGED <<response, exc>>
           ELSE IF c.exc = NoExc
           THEN /\ offset_angle' = c.f
                /\ pc' = "h_call"
                /\ UNCHANGED <<response, exc>>
           ELSE IF coercion_caught(c.exc)
           THEN /\ response' = <<Response(400, "offset_angle must be a valid number", << >>)>>
                /\ pc' = "responded"
                /\ UNCHANGED <<offset_angle, exc>>
           ELSE /\ exc' = c.exc
                /\ pc' = "h_except"
                /\ UNCHANGED <<offset_angle, response>>
    /\ UNCHANGED <<core_called, mode, today, request, latitude, longitude, self, calcs,
                   optimal_tilt, optimal_azimuth, annual_radiation, estimated_output,
                   primary_failed, sample_dates, invoked, result, store_attempts, store_failed,
                   create_kwargs, create_calls, responses_200,
                   stored, log, memo>>

\* calculator = SolarCalculator(); calculator.calculate_optimal_angles(...)
H_Call ==
    /\ pc = "h_call"
    /\ calcs' = [calcs EXCEPT ![0] = SolarCalculator]
    /\ self' = 0
    /\ core_called' = TRUE
    /\ pc' = "c_validate"
    /\ UNCHANGED <<mode, today, request, latitude, longitude, offset_angle,
                   optimal_tilt, optimal_azimuth, annual_radiation, estimated_output,
                   primary_failed, sample_dates, invoked, result, exc, store_attempts, store_failed,
                   create_kwargs, create_calls, responses_200,
                   stored, log, response, memo>>
\* where an exception leaving calculate_optimal_angles lands
AfterRaise == IF mode = "api" THEN "h_except" ELSE "raised"

\* calculate_optimal_angles: the validation; its except clause logs and re-raises
C_Validate ==
    /\ pc = "c_validate"
    /\ LET msg == validate_inputs(latitude, longitude, offset_angle)
       IN  IF msg # ""
           THEN /\ exc' = Raise("ValueError", msg)
                /\ log' = Append(log, "error")
                /\ pc' = AfterRaise
           ELSE /\ pc' = "c_tilt"
                /\ UNCHANGED <<exc, log>>
    /\ UNCHANGED <<core_called, mode, today, request, latitude, longitude, offset_angle, self, calcs,
                   optimal_tilt, optimal_azimuth, annual_radiation, estimated_output,
                   primary_failed, sample_dates, invoked, result, store_attempts, store_failed,
                   create_kwargs, create_calls, responses_200,
                   stored, response, memo>>

C_Tilt ==
    /\ pc = "c_tilt"
    /\ optimal_tilt' = calculate_optimal_tilt(latitude, offset_angle)
    /\ invoked' = Append(invoked, "tilt")
    /\ pc' = "c_azimuth"
    /\ UNCHANGED <<core_called, mode, today, request, latitude, longitude, offset_angle, self, calcs,
                   optimal_azimuth, annual_radiation, estimated_output,
                   primary_failed, sample_dates, result, exc, store_attempts, store_failed,
                   create_kwargs, create_calls, responses_200,
                   stored, log, response, memo>>

C_Azimuth ==
    /\ pc = "c_azimuth"
    /\ optimal_azimuth' = calculate_optimal_azimuth(latitude)
    /\ invoked' = Append(invoked, "azimuth")
    /\ pc' = "c_radiation"
    /\ UNCHANGED <<core_called, mode, today, request, latitude, longitude, offset_angle, self, calcs,
                   optimal_tilt, annual_radiation, estimated_output,
                   primary_failed, sample_dates, result, exc, store_attempts, store_failed,
                   create_kwargs, create_calls, responses_200,
                   stored, log, response, memo>>

\* _calculate_annual_radiation, the pvlib calls succeeding or raising
C_Radiation ==
    /\ pc = "c_radiation"
    /\ \E pvlib \in PvlibOutcomes :
        LET r == calculate_annual_radiation(latitude, longitude, optimal_tilt, pvlib)
        IN  /\ primary_failed' = (pvlib # "ok")
            /\ sample_dates' = IF pvlib = "ok"
                               THEN <<DatetimeIndex(date_range(SampleYear))>>
                               ELSE << >>
            /\ invoked' = Append(invoked, "radiation")
            /\ IF r.raised = NoExc
               THEN /\ annual_radiation' = r.value
                    /\ log' = log \o r.log
                    /\ pc' = "c_output"
                    /\ exc' = exc
               ELSE /\ annual_radiation' = annual_radiation
                    /\ log' = (log \o r.log) \o <<"error">>
                    /\ pc' = AfterRaise
                    /\ exc' = r.raised
    /\ UNCHANGED <<core_called, mode, today, request, latitude, longitude, offset_angle, self, calcs,
                   optimal_tilt, optimal_azimuth, estimated_output,
                   result, store_attempts, store_failed,
                   create_kwargs, create_calls, responses_200,
                   stored, response, memo>>

C_Output ==
    /\ pc = "c_output"
    /\ estimated_output' = calculate_annual_output(calcs[self], annual_radiation)
    /\ invoked' = Append(invoked, "output")
    /\ pc' = "c_return"
    /\ UNCHANGED <<core_called, mode, today, request, latitude, longitude, offset_angle, self, calcs,
                   optimal_tilt, optimal_azimuth, annual_radiation,
                   primary_failed, sample_dates, result, exc, store_attempts, store_failed,
                   create_kwargs, create_calls, responses_200,
                   stored, log, response, memo>>

\* return {...}
C_Return ==
    /\ pc = "c_return"
    /\ result' = <<result_record(calcs[self], optimal_tilt, optimal_azimuth,
                                 annual_radiation, estimated_output, today)>>
    /\ pc' = IF mode = "api" THEN "h_store" ELSE "returned"
    /\ UNCHANGED <<core_called, mode, today, request, latitude, longitude, offset_angle, self, calcs,
                   optimal_tilt, optimal_azimuth, annual_radiation, estimated_output,
                   primary_failed, sample_dates, invoked, exc, store_attempts, store_failed,
                   create_kwargs, create_calls, responses_200,
                   stored, log, response, memo>>

\* SolarCalculation.objects.create(...) inside try / except Exception
H_Store ==
    /\ pc = "h_store"
    /\ store_attempts' = store_attempts + 1
    /\ create_calls' = create_calls + 1
    /\ create_kwargs' = <<calculation_row(latitude, longitude, offset_angle, result[1])>>
    /\ \E outcome \in StoreOutcomes :
        LET e == Raise(outcome, "database error")
        IN  IF outcome = "ok"
            THEN /\ stored' = Append(stored, create_kwargs'[1])
                 /\ pc' = "h_respond"
                 /\ UNCHANGED <<store_failed, log, exc>>
            ELSE IF store_caught(e)
            THEN /\ store_failed' = TRUE
                 /\ log' = Append(log, "warning")
                 /\ pc' = "h_respond"
                 /\ UNCHANGED <<stored, exc>>
            ELSE /\ store_failed' = TRUE
                 /\ exc' = e
                 /\ pc' = "h_except"
                 /\ UNCHANGED <<stored, log>>
    /\ UNCHANGED <<core_called, mode, today, request, latitude, longitude, offset_angle, self, calcs,
                   optimal_tilt, optimal_azimuth, annual_radiation, estimated_output,
                   primary_failed, sample_dates, invoked, result, response, memo,
                   responses_200>>

\* return Response(result, status=status.HTTP_200_OK)
H_Respond ==
    /\ pc = "h_respond"
    /\ response' = <<Response(200, "", result)>>
    /\ responses_200' = responses_200 + 1
    /\ pc' = "responded"
    /\ UNCHANGED <<core_called, mode, today, request, latitude, longitude, offset_angle, self, calcs,
                   optimal_tilt, optimal_azimuth, annual_radiation, estimated_output,
                   primary_failed, sample_dates, invoked, result, exc, store_attempts, store_failed,
                   create_kwargs, create_calls,
                   stored, log, memo>>

\* except ValueError / except Exception
H_Except ==
    /\ pc = "h_except"
    /\ response' = <<handle_exception(exc)>>
    /\ log' = IF handle_exception(exc).status = 500 THEN Append(log, "error") ELSE log
    /\ pc' = "responded"
    /\ UNCHANGED <<core_called, mode, today, request, latitude, longitude, offset_angle, self, calcs,
                   optimal_tilt, optimal_azimuth, annual_radiation, estimated_output,
                   primary_failed, sample_dates, invoked, result, exc, store_attempts, store_failed,
                   create_kwargs, create_calls, responses_200,
                   stored, memo>>

\* the response has gone out, or the call has returned or raised: the locals
\* of the request are gone
Finish ==
    /\ pc \in {"responded", "returned", "raised"}
    /\ pc' = "idle"
    /\ request' = NoRequest
    /\ latitude' = None
    /\ longitude' = None
    /\ offset_angle' = None
    /\ Fresh
    /\ UNCHANGED <<mode, today, self, calcs, memo, create_calls, responses_200>>

Next ==
    \/ NewDay
    \/ (pc = "idle" /\ \E p \in Payloads : Receive(p))
    \/ H_Data
    \/ H_Required
    \/ H_Coords
    \/ H_Offset
    \/ H_Call
    \/ C_Validate
    \/ C_Tilt
    \/ C_Azimuth
    \/ C_Radiation
    \/ C_Output
    \/ C_Return
    \/ H_Store
    \/ H_Respond
    \/ H_Except
    \/ Finish

Spec == Init /\ [][Next]_vars
----------------------------------------------------------------------------
(* Direct calls of the engine on long-lived instances, as the unit tests make *)

CallLatitudes == {Fin(-Deg(33)), Fin(Deg(30)), Fin(Deg(100))}

CallLongitudes == {Fin(Deg(151))}

CallOffsets == {None, Fin(Deg(15))}

\* calc.calculate_optimal_angles(lat, lon, off) on instance i
Call(i, lat, lon, off) ==
    /\ pc = "idle"
    /\ pc' = "c_validate"
    /\ mode' = "direct"
    /\ request' = NoRequest
    /\ latitude' = lat
    /\ longitude' = lon
    /\ offset_angle' = off
    /\ self' = i
    /\ Fresh
    /\ UNCHANGED <<today, calcs, memo, create_calls, responses_200>>

\* the four rounded outputs of a result record
Outputs(res) ==
    <<res.optimal_pitch, res.optimal_azimuth, res.annual_solar_radiation,
      res.estimated_annual_output>>

\* an observer keeps one completed call to compare later calls with
Remember ==
    /\ pc = "returned"
    /\ memo' = <<[latitude |-> latitude, longitude |-> longitude,
                  offset_angle |-> offset_angle, primary_failed |-> primary_failed,
                  self |-> self, today |-> today, outputs |-> Outputs(result[1])]>>
    /\ memo' # memo
    /\ UNCHANGED <<pc, mode, today, request, latitude, longitude, offset_angle, self,
                   core_called, calcs, optimal_tilt, optimal_azimuth, annual_radiation,
                   estimated_output, primary_failed, sample_dates, invoked, result, exc,
                   store_attempts, store_failed,
                   create_kwargs, create_calls, responses_200, stored, log, response>>

NextCalls ==
    \/ NewDay
    \/ (pc = "idle" /\ \E i \in Instances \ {0}, lat \in CallLatitudes,
                          lon \in CallLongitudes, off \in CallOffsets :
                            Call(i, lat, lon, off))
    \/ C_Validate
    \/ C_Tilt
    \/ C_Azimuth
    \/ C_Radiation
    \/ C_Output
    \/ C_Return
    \/ Remember
    \/ Finish

SpecCalls == Init /\ [][NextCalls]_vars
----------------------------------------------------------------------------
(* Properties *)

\* x is no number of [lo, hi]: NaN and the infinities are outside every range
Outside(x, lo, hi) == x.cls # "fin" \/ x.v < lo \/ x.v > hi

InvalidArguments ==
    \/ Outside(latitude, -Deg(90), Deg(90))
    \/ Outside(longitude, -Deg(180), Deg(180))
    \/ (offset_angle # None /\ Outside(offset_angle, -Deg(90), Deg(90)))

ValidationMessages ==
    {"Latitude must be between -90 and 90 degrees",
     "Longitude must be between -180 and 180 degrees",
     "Offset angle must be between -90 and 90 degrees"}

\* C1: a call of calculate_optimal_angles whose latitude is outside [-90, 90],
\* whose longitude is outside [-180, 180] or whose offset is present and
\* outside [-90, 90] ends in a ValueError, returns no result record, and has
\* invoked none of the tilt, azimuth, radiation and yield estimators.
C1_InvalidInputRaises ==
    (core_called /\ InvalidArguments /\ pc # "c_validate")
        => /\ exc.type = "ValueError"
           /\ exc.msg \in ValidationMessages
           /\ result = << >>
           /\ invoked = << >>
           /\ pc \in {"h_except", "raised", "responded", "idle"}

\* C1 witness: latitude and longitude are in range, only the offset is out of
\* range, and the call has raised
C1_Witness ==
    /\ core_called
    /\ pc = "h_except"
    /\ ~Outside(latitude, -Deg(90), Deg(90))
    /\ ~Outside(longitude, -Deg(180), Deg(180))
    /\ offset_angle = Fin(Deg(90) + 1)
    /\ exc.type = "ValueError"

\* the tilt of the claim: min(90, max(0, |latitude| + s + o))
ClaimedTilt(lat, off) ==
    LET s == IF lat.v > Deg(25) THEN Deg(5)
             ELSE IF lat.v < -Deg(25) THEN -Deg(5)
             ELSE 0
        o == IF off = None THEN 0 ELSE off.v
    IN  Min(Deg(90), Max(0, Abs(lat.v) + s + o))

TiltComputed == Len(invoked) >= 1

\* C2: for valid inputs the tilt is min(90, max(0, |latitude| + s + o)) with
\* s = +5 north of 25, -5 south of -25, 0 between, and o the offset or 0; with no
\* offset a latitude in (25, 90] gives min(90, latitude + 5) and a latitude in
\* [-90, -25) gives |latitude| - 5; latitude 30 with offset 15 gives 50.
C2_TiltFormula ==
    TiltComputed =>
        /\ optimal_tilt = ClaimedTilt(latitude, offset_angle)
        /\ (offset_angle = None /\ latitude.v > Deg(25))
               => optimal_tilt = Min(Deg(90), latitude.v + Deg(5))
        /\ (offset_angle = None /\ latitude.v < -Deg(25))
               => optimal_tilt = Abs(latitude.v) - Deg(5)
        /\ (latitude = Fin(Deg(30)) /\ offset_angle = Fin(Deg(15)))
               => optimal_tilt = Deg(50)

\* C2 witness: a southern latitude below -25 with an offset, tilt computed
C2_Witness ==
    /\ TiltComputed
    /\ latitude = Fin(-Deg(33))
    /\ offset_angle = Fin(Deg(15))
    /\ optimal_tilt = Deg(43)

\* C3: the azimuth of the result record is exactly 180.0 for latitude >= 0
\* (0 included) and exactly 0.0 for latitude < 0, whatever the longitude and
\* the offset; no other value is produced.
C3_AzimuthByHemisphere ==
    /\ optimal_azimuth \in {Deg(0), Deg(180)}
    /\ result # << >> =>
          result[1].optimal_azimuth = (IF latitude.v >= 0 THEN 18000 ELSE 0)

\* C3 witness: a result record for a point on the equator
C3_Witness ==
    /\ result # << >>
    /\ latitude = Fin(0)
    /\ result[1].optimal_azimuth = 18000

ResultFields ==
    {"optimal_pitch", "optimal_azimuth", "annual_solar_radiation",
     "efficiency_factor", "estimated_annual_output", "calculation_date"}

Validated == core_called /\ pc \notin {"c_validate"} /\ ~InvalidArguments

\* C4: once the inputs have passed validation no error leaves the engine; when
\* the primary path raised, the radiation is the fallback estimate for the same
\* latitude and tilt, and the call returns a complete result record.
C4_FallbackNeverFails ==
    /\ (Validated /\ pc # "idle") => exc = NoExc /\ pc \notin {"h_except", "raised"}
    /\ (Validated /\ primary_failed) =>
          annual_radiation = fallback_radiation_calculation(latitude, optimal_tilt)
    /\ (Validated /\ pc \in {"h_store", "h_respond", "responded", "returned"}) =>
          /\ result # << >>
          /\ DOMAIN result[1] = ResultFields
          /\ result[1].annual_solar_radiation =
                 RoundHalfEven(annual_radiation, RadUnit \div 100)

\* C4 witness: the primary path raised and the request was answered 200
C4_Witness ==
    /\ primary_failed
    /\ pc = "responded"
    /\ response # << >>
    /\ response[1].status = 200
    /\ response[1].data = result

\* C5: the radiation and the output of a result record are >= 0 and finite on
\* both paths.  The engine's arithmetic maps numbers to numbers, so a value
\* that is not finite can only come from an argument that is not finite.
C5_NonNegativeFinite ==
    result # << >> =>
        /\ latitude.cls = "fin"
        /\ longitude.cls = "fin"
        /\ offset_angle.cls \in {"fin", "none"}
        /\ annual_radiation >= 0
        /\ estimated_output >= 0
        /\ result[1].annual_solar_radiation >= 0
        /\ result[1].estimated_annual_output >= 0

\* C5 witness: a result record on the fallback path
C5_Witness ==
    /\ result # << >>
    /\ primary_failed
    /\ result[1].annual_solar_radiation > 0
    /\ result[1].estimated_annual_output > 0

\* C6: when the engine returned a result record the handler answers 200 with
\* exactly that record, whether SolarCalculation.objects.create succeeded or
\* raised.
C6_StoreFailureIgnored ==
    /\ (mode = "api" /\ result # << >> /\ pc = "responded") =>
          response = <<Response(200, "", result)>>
    /\ (mode = "api" /\ result # << >>) => pc # "h_except"

\* C6 witness: the store call raised and the response is the 200 with the record
C6_Witness ==
    /\ pc = "responded"
    /\ store_failed
    /\ response = <<Response(200, "", result)>>

\* what the handler is to reject with a 400
NonNumeric(raw) == raw.t \in {"str", "null"}

OutOfRange(raw, lo, hi) ==
    raw.t = "bigint" \/ (raw.t = "num" /\ Outside(raw.f, lo, hi))

ValidationFailure(req) ==
    /\ req.body = "ok"
    /\ \/ req.latitude = Absent
       \/ req.longitude = Absent
       \/ NonNumeric(req.latitude)
       \/ NonNumeric(req.longitude)
       \/ NonNumeric(req.offset_angle)
       \/ OutOfRange(req.latitude, -Deg(90), Deg(90))
       \/ OutOfRange(req.longitude, -Deg(180), Deg(180))
       \/ OutOfRange(req.offset_angle, -Deg(90), Deg(90))

\* C7: every validation failure (a missing latitude or longitude, a field that
\* is no number, a field outside its range) is answered 400, never 200 or 500.
C7_ValidationFailureIs400 ==
    (pc = "responded" /\ ValidationFailure(request)) => response[1].status = 400

\* C8: an exception reaching the handler that is no validation failure is
\* answered 500 with the body 'Internal server error', which does not carry
\* the exception's message.
C8_GenericInternalError ==
    (pc = "responded" /\ exc # NoExc /\ exc.msg \notin ValidationMessages) =>
        /\ response = <<Response(500, "Internal server error", << >>)>>
        /\ response[1].error # exc.msg

\* C8 witness: an OverflowError was answered
C8_Witness ==
    /\ pc = "responded"
    /\ exc.type = "OverflowError"
    /\ response[1].status = 500

SameCall ==
    /\ memo # << >>
    /\ memo[1].latitude = latitude
    /\ memo[1].longitude = longitude
    /\ memo[1].offset_angle = offset_angle
    /\ memo[1].primary_failed = primary_failed

\* C9: two calls with the same arguments that take the same path return the
\* same four rounded outputs, on whichever instance and day and whatever calls
\* lie between them, and no call changes the fields of an instance.
C9_Deterministic ==
    /\ (pc = "returned" /\ SameCall) => Outputs(result[1]) = memo[1].outputs
    /\ calcs = [i \in Instances |-> SolarCalculator]

\* C9 witness: the same call on the primary path, made again on another
\* instance on another day
C9_Witness ==
    /\ pc = "returned"
    /\ SameCall
    /\ ~primary_failed
    /\ memo[1].self # self
    /\ memo[1].today # today

\* the base radiation of the claim, in tenths
ClaimedBase(a) ==
    IF a < Deg(23) + 1 THEN 55
    ELSE IF Deg(23) + 1 <= a /\ a < Deg(45) THEN 45
    ELSE IF Deg(45) <= a /\ a < Deg(60) THEN 35
    ELSE 25

\* the tilt factor of the claim, in 1/(10 * Deg(90))
ClaimedFactor(lat, tilt) == 10 * Deg(90) + Deg(90) - Abs(tilt - Abs(lat.v))

RadiationComputed == Len(invoked) >= 3 /\ exc = NoExc

\* C10: on the fallback path the radiation is base(|latitude|) x factor with
\* base 5.5 / 4.5 / 3.5 / 2.5 on the bands below 23.5, 23.5 to 45, 45 to 60, 60
\* and above (each edge in the higher band), and the factor
\* 1.0 + 0.1 x (1 - |tilt - |latitude|| / 90) lies in [0.9, 1.1].
C10_FallbackBands ==
    (RadiationComputed /\ primary_failed) =>
        /\ annual_radiation =
               ClaimedBase(Abs(latitude.v)) * ClaimedFactor(latitude, optimal_tilt)
        /\ 9 * Deg(90) <= ClaimedFactor(latitude, optimal_tilt)
        /\ ClaimedFactor(latitude, optimal_tilt) <= 11 * Deg(90)
        /\ (Abs(latitude.v) = Deg(23) + 1 => annual_radiation % 45 = 0 /\ annual_radiation \div 45 = ClaimedFactor(latitude, optimal_tilt))
        /\ (Abs(latitude.v) = Deg(45) => annual_radiation \div 35 = ClaimedFactor(latitude, optimal_tilt))
        /\ (Abs(latitude.v) = Deg(60) => annual_radiation \div 25 = ClaimedFactor(latitude, optimal_tilt))

\* C10 witness: the fallback estimate at latitude 45, on the 3.5 band
C10_Witness ==
    /\ RadiationComputed
    /\ primary_failed
    /\ latitude = Fin(Deg(45))
    /\ annual_radiation = 35 * ClaimedFactor(latitude, optimal_tilt)

PrimaryComputed == RadiationComputed /\ ~primary_failed

\* the annual radiation of the claim: the mean of 365 daily values, times 365,
\* over 1000, in 1/RadUnit
ClaimedAnnual(lat, lon, tilt) ==
    LET days == date_range(SampleYear)
        daily == calculate_tilted_radiation(to_numpy(get_clearsky(lat, lon, days)),
                                            to_numpy(get_solarposition(lat, lon, days)),
                                            tilt)
    IN  MulDiv((SumRange(daily, 1, Len(daily)) \div 365) * 365, RadUnit, 1000 * 1000)

\* C11: on the primary path the radiation estimator samples every calendar day
\* of a non-leap year, exactly 365 daily points from January 1 through
\* December 31, and the annual radiation is the mean of those 365 daily
\* tilted-irradiance values times 365 over 1000.
C11_SamplesNonLeapYear ==
    PrimaryComputed =>
        /\ sample_dates # << >>
        /\ sample_dates[1].first.month = 1 /\ sample_dates[1].first.day = 1
        /\ sample_dates[1].last.month = 12 /\ sample_dates[1].last.day = 31
        /\ sample_dates[1].last.year = sample_dates[1].first.year
        /\ ~IsLeap(sample_dates[1].first.year)
        /\ sample_dates[1].periods = 365
        /\ annual_radiation = ClaimedAnnual(latitude, longitude, optimal_tilt)

\* the inputs of the request in flight, coerced as the handler coerces them
RequestInputs(req) ==
    [latitude |-> req.latitude.f, longitude |-> req.longitude.f,
     offset_angle |-> IF req.offset_angle = Absent THEN None ELSE req.offset_angle.f]

\* the row carries the inputs of the request and the outputs of the record
Carries(row, req, res) ==
    /\ row.latitude = RequestInputs(req).latitude
    /\ row.longitude = RequestInputs(req).longitude
    /\ row.offset_angle = RequestInputs(req).offset_angle
    /\ row.optimal_pitch = res.optimal_pitch
    /\ row.optimal_azimuth = res.optimal_azimuth
    /\ row.annual_solar_radiation = res.annual_solar_radiation
    /\ row.efficiency_factor = res.efficiency_factor
    /\ row.estimated_annual_output = res.estimated_annual_output

Answered(st) == response # << >> /\ response[1].status = st

\* what holds of every state of a request
StoreInvariant ==
    /\ store_attempts <= 1
    /\ store_attempts = Len(create_kwargs)
    /\ store_attempts = 1 =>
          /\ core_called
          /\ result # << >>
          /\ Carries(create_kwargs[1], request, result[1])
    /\ (Answered(400) \/ Answered(500)) => store_attempts = 0
    /\ Answered(200) => store_attempts = 1 /\ response[1].data = result
    /\ create_calls = responses_200 + (IF pc = "h_respond" THEN 1 ELSE 0)

\* what holds of every step: create is called with the record in hand and no
\* response produced yet, and a response follows a create only as a 200
StoreStep ==
    /\ create_calls' # create_calls =>
          /\ create_calls' = create_calls + 1
          /\ store_attempts = 0 /\ store_attempts' = 1
          /\ result # << >> /\ result' = result
          /\ response = << >> /\ response' = << >>
    /\ (response = << >> /\ response' # << >>) =>
          /\ response'[1].status \in {200, 400, 500}
          /\ (response'[1].status = 200) = (store_attempts = 1)
          /\ responses_200' = responses_200 + store_attempts
          /\ create_calls' = create_calls

\* C12: over every sequence of requests, SolarCalculation.objects.create is
\* called only after the engine returned a result record and before the
\* response is produced, at most once per request; a request answered 400 or
\* 500 made no such call, and a request answered 200 made exactly one, with
\* the row carrying that request's inputs and the record's outputs.
C12_StoreOnlyOnSuccess == [](StoreInvariant) /\ [][StoreStep]_vars

\* C12 witness: the second request of a run to reach the store is answered
\* 200 although the create call raised
C12_Witness ==
    /\ pc = "responded"
    /\ Answered(200)
    /\ store_failed
    /\ store_attempts = 1
    /\ create_calls = 2
    /\ responses_200 = 2
====
